---- MODULE Spec2Model ----
(***************************************************************************)
(* Leakage models of ELMO-2 (GILES): the Hamming-weight model's            *)
(* Generate_Traces and the Power model's bit-interaction helpers, feature  *)
(* bundles, term calculation and constructor.                              *)
(*                                                                         *)
(* A 32-bit word (std::uint32_t, std::bitset<32>) is represented by the    *)
(* set of its set bit positions, a subset of 0..31: bit i of w is 1 iff    *)
(* i \in w.  The word 0 is {} and 0xFFFFFFFF is 0..31.                      *)
(***************************************************************************)
EXTENDS Integers, Sequences, FiniteSets, TLC

\* ------------------------------------------------------------------------
\* Bounds of the model
\* ------------------------------------------------------------------------
MaxBits == 3          \* low bit positions varied in the helper inputs
MaxOpBits == 2        \* low bit positions varied in operand values
MaxIndetBits == 1     \* low bit positions varied in indeterminate fields
MaxCycles == 2        \* cycle count of the Hamming-weight executions
MaxPowerCycles == 1   \* cycle count of the Power-model executions
MaxScalar == 2        \* largest scalar feature value given to calculate_term
MaxWeight == 2        \* largest weight numerator (weights are n / WeightDen)
WeightDen == 2        \* denominator of the modelled weights
MaxCalls == 2         \* Generate_Traces calls counted on a constructed model

\* ------------------------------------------------------------------------
\* 32-bit words
\* ------------------------------------------------------------------------
Width == 32
Bits == 0 .. (Width - 1)
ZeroWord == {}
AllOnes == Bits
Complement(w) == Bits \ w
HighImage(w) == {(Width - 1) - j : j \in w}
PopCount(w) == Cardinality(w)

\* p_term[i] of a std::bitset<32>, as the integer 0 or 1
BitAt(w, i) == IF i \in w THEN 1 ELSE 0

BitWords ==
  LET low == SUBSET (0 .. (MaxBits - 1))
  IN  low \cup {Complement(s) : s \in low} \cup {HighImage(s) : s \in low}

OperandWords == (SUBSET (0 .. (MaxOpBits - 1))) \cup {AllOnes}

\* second operands take the two extreme values only
SecondOperandWords == {ZeroWord, AllOnes}

IndeterminateWords == (SUBSET (0 .. (MaxIndetBits - 1))) \cup {AllOnes}

\* ------------------------------------------------------------------------
\* Instruction_Terms_Helper::calculate_interactions
\* ------------------------------------------------------------------------
RECURSIVE InteractionsInner(_, _, _)
InteractionsInner(p_term, term_1, term_2) ==
  IF term_2 < Width
    THEN BitAt(p_term, term_1) * BitAt(p_term, term_2)
           + InteractionsInner(p_term, term_1, term_2 + 1)
    ELSE 0

RECURSIVE InteractionsOuter(_, _)
InteractionsOuter(p_term, term_1) ==
  IF term_1 < Width
    THEN InteractionsInner(p_term, term_1, term_1 + 1)
           + InteractionsOuter(p_term, term_1 + 1)
    ELSE 0

\* the inner loop started at term_1 instead of term_1 + 1
RECURSIVE InteractionsOuterFromSelf(_, _)
InteractionsOuterFromSelf(p_term, term_1) ==
  IF term_1 < Width
    THEN InteractionsInner(p_term, term_1, term_1)
           + InteractionsOuterFromSelf(p_term, term_1 + 1)
    ELSE 0

calculate_interactions_from_self(p_term) == InteractionsOuterFromSelf(p_term, 0)

calculate_interactions(p_term) == InteractionsOuter(p_term, 0)

\* ------------------------------------------------------------------------
\* Instruction_Terms_Interactions::calculate_bitflips
\* ------------------------------------------------------------------------
RECURSIVE BitflipsLoop(_, _, _, _)
BitflipsLoop(p_instruction_1_operand, p_instruction_2_operand, i, size) ==
  IF i < size
    THEN (IF BitAt(p_instruction_1_operand, i) # BitAt(p_instruction_2_operand, i)
            THEN {i} ELSE {})
           \cup BitflipsLoop(p_instruction_1_operand, p_instruction_2_operand,
                             i + 1, size)
    ELSE {}

\* the loop stopped one position early
calculate_bitflips_short(p_instruction_1_operand, p_instruction_2_operand) ==
  BitflipsLoop(p_instruction_1_operand, p_instruction_2_operand, 0, Width - 1)

calculate_bitflips(p_instruction_1_operand, p_instruction_2_operand) ==
  BitflipsLoop(p_instruction_1_operand, p_instruction_2_operand, 0, Width)

\* ------------------------------------------------------------------------
\* State
\* ------------------------------------------------------------------------
VARIABLES
  a, b,                  \* helper inputs: two 32-bit words
  interactions_result,   \* result of calculate_interactions(a), -1 before the call
  bitflips_called,       \* calculate_bitflips(a, b) has returned
  bitflips_result,       \* its result
  m_execution,           \* the Execution: one record per cycle
  i, traces, pc,         \* Hamming-weight Generate_Traces: loop index, trace, position
  instruction_1,         \* feature bundle of the current cycle
  instruction_2,         \* feature bundle of the previous cycle
  source_1,              \* the get_instruction_terms call instruction_1 came from
  cross_terms,           \* Instruction_Terms_Interactions built from the two bundles
  coefficient_weights,   \* the weights the Coefficients return
  term_call,             \* arguments of the last calculate_term call
  term_result,           \* its result
  coefficient_terms,     \* per opcode, the interaction terms the Coefficients provide
  model_state,           \* "unconstructed", "constructed" or "threw"
  generate_calls         \* Generate_Traces calls made on the Power model

bits_vars == <<a, b, interactions_result, bitflips_called, bitflips_result>>
hw_vars == <<i, traces, pc>>
power_vars == <<instruction_1, instruction_2, source_1, cross_terms>>
term_vars == <<coefficient_weights, term_call, term_result>>
ctor_vars == <<coefficient_terms, model_state, generate_calls>>
vars == <<bits_vars, m_execution, hw_vars, power_vars, term_vars, ctor_vars>>

NoBundle == [present |-> FALSE]
NoCall == [called |-> FALSE]

BitsIdle ==
  /\ a = ZeroWord /\ b = ZeroWord
  /\ interactions_result = -1
  /\ bitflips_called = FALSE
  /\ bitflips_result = ZeroWord

HWIdle == i = 0 /\ traces = <<>> /\ pc = "idle"

PowerIdle ==
  /\ instruction_1 = NoBundle /\ instruction_2 = NoBundle
  /\ source_1 = NoCall
  /\ cross_terms = NoBundle

TermIdle ==
  /\ coefficient_weights = <<0, 0>>
  /\ term_call = NoCall
  /\ term_result = 0

CtorIdle ==
  /\ coefficient_terms = <<>>
  /\ model_state = "unconstructed"
  /\ generate_calls = 0

\* ------------------------------------------------------------------------
\* The bit-interaction helpers applied to drawn inputs
\* ------------------------------------------------------------------------
InitBits ==
  /\ a \in BitWords /\ b \in BitWords
  /\ interactions_result = -1
  /\ bitflips_called = FALSE
  /\ bitflips_result = ZeroWord
  /\ m_execution = <<>>
  /\ HWIdle /\ PowerIdle /\ TermIdle /\ CtorIdle

CallInteractions ==
  /\ interactions_result = -1
  /\ interactions_result' = calculate_interactions(a)
  /\ UNCHANGED <<a, b, bitflips_called, bitflips_result>>
  /\ UNCHANGED <<m_execution, hw_vars, power_vars, term_vars, ctor_vars>>

CallBitflips ==
  /\ ~bitflips_called
  /\ bitflips_called' = TRUE
  /\ bitflips_result' = calculate_bitflips(a, b)
  /\ UNCHANGED <<a, b, interactions_result>>
  /\ UNCHANGED <<m_execution, hw_vars, power_vars, term_vars, ctor_vars>>

NextBits == CallInteractions \/ CallBitflips

SpecBits == InitBits /\ [][NextBits]_vars

\* C4: for a word with k set bits, calculate_interactions returns k*(k-1)/2,
\* whichever positions are set.
InteractionsIsChoose2 ==
  interactions_result # -1 =>
    interactions_result = (PopCount(a) * (PopCount(a) - 1)) \div 2

\* C4 witness: the helper has returned 3 for the word whose three set bits
\* are the highest positions 29, 30 and 31.
InteractionsWitness ==
  /\ interactions_result = 3
  /\ PopCount(a) = 3
  /\ a = HighImage(0 .. 2)

\* C5: calculate_bitflips(a, b) has bit i set iff a and b differ at i; it is
\* the zero word for a = b, and for b = ~a it is 0xFFFFFFFF, whose
\* interaction count is 496.
BitflipsIsXor ==
  bitflips_called =>
    /\ \A k \in Bits : (k \in bitflips_result) <=> ((k \in a) # (k \in b))
    /\ bitflips_result = (a \ b) \cup (b \ a)
    /\ (a = b) => bitflips_result = ZeroWord
    /\ (b = Complement(a)) =>
         /\ bitflips_result = AllOnes
         /\ calculate_interactions(bitflips_result) = 496

\* C5 witness: the bit flips of a word against its complement have been
\* computed, for a word that is neither zero nor all ones.
BitflipsWitness ==
  /\ bitflips_called
  /\ b = Complement(a)
  /\ a # ZeroWord /\ a # AllOnes
  /\ bitflips_result = AllOnes

\* ------------------------------------------------------------------------
\* The Execution queried by the models.  Cycle c of the code is element
\* c + 1 of the sequence.
\* ------------------------------------------------------------------------
CycleStates ==
  [normal : BOOLEAN, operand_1 : OperandWords, operand_2 : SecondOperandWords]

Executions(n) == UNION {[1 .. k -> CycleStates] : k \in 0 .. n}

Get_Cycle_Count(execution) == Len(execution)

Is_Normal_State(execution, cycle) == execution[cycle + 1].normal

\* the instruction in the "Execute" stage at a cycle, with its operand values
Get_Instruction(execution, cycle) ==
  [cycle |-> cycle,
   operand_1 |-> execution[cycle + 1].operand_1,
   operand_2 |-> execution[cycle + 1].operand_2]

Get_Operand_Value(execution, cycle, instruction, index) ==
  IF index = 1 THEN instruction.operand_1 ELSE instruction.operand_2

\* ------------------------------------------------------------------------
\* Model_Hamming_Weight::Generate_Traces
\* ------------------------------------------------------------------------
hamming_weight(value) == PopCount(value)

\* conversion of an integer to the float stored in std::vector<float>
ToFloat(n) ==
  IF n <= 2^24 THEN n
  ELSE (n - (n % 2)) + (IF n % 4 = 3 THEN 2 ELSE 0)

\* the stall branch continuing without a push_back
AbnormalPushSkipped(trace, execution, cycle) == trace

\* the stall branch computing the sample from the operand
AbnormalPushComputed(trace, execution, cycle) ==
  Append(trace, ToFloat(hamming_weight(Get_Operand_Value(
    execution, cycle, Get_Instruction(execution, cycle), 1))))

AbnormalPush(trace, execution, cycle) == Append(trace, ToFloat(0))

\* the sample taken from the second operand
NormalPushSecondOperand(trace, execution, cycle) ==
  Append(trace, ToFloat(hamming_weight(Get_Operand_Value(
    execution, cycle, Get_Instruction(execution, cycle), 2))))

NormalPush(trace, execution, cycle) ==
  Append(trace, ToFloat(hamming_weight(Get_Operand_Value(
    execution, cycle, Get_Instruction(execution, cycle), 1))))

InitHW ==
  /\ m_execution \in Executions(MaxCycles)
  /\ i = 0 /\ traces = <<>> /\ pc = "loop"
  /\ BitsIdle /\ PowerIdle /\ TermIdle /\ CtorIdle

AbnormalCycle ==
  /\ pc = "loop"
  /\ i < Get_Cycle_Count(m_execution)
  /\ ~Is_Normal_State(m_execution, i)
  /\ traces' = AbnormalPush(traces, m_execution, i)
  /\ i' = i + 1
  /\ UNCHANGED <<pc, m_execution, bits_vars, power_vars, term_vars, ctor_vars>>

NormalCycle ==
  /\ pc = "loop"
  /\ i < Get_Cycle_Count(m_execution)
  /\ Is_Normal_State(m_execution, i)
  /\ traces' = NormalPush(traces, m_execution, i)
  /\ i' = i + 1
  /\ UNCHANGED <<pc, m_execution, bits_vars, power_vars, term_vars, ctor_vars>>

ReturnTraces ==
  /\ pc = "loop"
  /\ ~(i < Get_Cycle_Count(m_execution))
  /\ pc' = "done"
  /\ UNCHANGED <<i, traces, m_execution, bits_vars, power_vars, term_vars, ctor_vars>>

NextHW == AbnormalCycle \/ NormalCycle \/ ReturnTraces

SpecHW == InitHW /\ [][NextHW]_vars

\* C1: Generate_Traces appends one sample per cycle: after cycles 0..i-1 the
\* trace holds i samples, and the returned trace has as many samples as the
\* Execution has cycles.
TraceLengthIsCycleCount ==
  /\ pc \in {"loop", "done"} => Len(traces) = i
  /\ pc = "done" => Len(traces) = Get_Cycle_Count(m_execution)

\* C1 witness: a trace returned for an Execution that mixes a stall cycle
\* and a normal cycle.
TraceLengthWitness ==
  /\ pc = "done"
  /\ Get_Cycle_Count(m_execution) = 2
  /\ Len(traces) = 2
  /\ ~Is_Normal_State(m_execution, 0)
  /\ Is_Normal_State(m_execution, 1)

\* C2: the sample of every cycle whose "Execute" stage is not in a normal
\* state is 0, whatever the operand values at that cycle.
AbnormalSampleIsZero ==
  pc \in {"loop", "done"} =>
    \A c \in 0 .. (Len(traces) - 1) :
      ~Is_Normal_State(m_execution, c) => traces[c + 1] = 0

\* C2 witness: a stall cycle whose first operand is 0xFFFFFFFF has been
\* given the sample 0.
AbnormalSampleWitness ==
  /\ pc = "done"
  /\ \E c \in 0 .. (Len(traces) - 1) :
       /\ ~Is_Normal_State(m_execution, c)
       /\ m_execution[c + 1].operand_1 = AllOnes
       /\ traces[c + 1] = 0

\* C3: the sample of every normal-state cycle is the number of set bits of
\* the first operand of that cycle's instruction, and of nothing else.
NormalSampleIsPopCount ==
  pc \in {"loop", "done"} =>
    \A c \in 0 .. (Len(traces) - 1) :
      Is_Normal_State(m_execution, c) =>
        traces[c + 1] = Cardinality(m_execution[c + 1].operand_1)

\* C3 witness: a trace holding the sample 32 for the operand 0xFFFFFFFF and
\* the sample 0 for the operand 0, with second operands of another weight.
NormalSampleWitness ==
  /\ pc = "done"
  /\ Len(traces) = 2
  /\ Is_Normal_State(m_execution, 0) /\ Is_Normal_State(m_execution, 1)
  /\ m_execution[1].operand_1 = AllOnes /\ m_execution[1].operand_2 = ZeroWord
  /\ m_execution[2].operand_1 = ZeroWord /\ m_execution[2].operand_2 = AllOnes
  /\ traces = <<32, 0>>

\* ------------------------------------------------------------------------
\* Model_Power: the per-cycle feature bundle
\* ------------------------------------------------------------------------
\* std::bitset<32> constructed from an integer: the low 32 bits
ToBitset32(value) == value \cap Bits

\* Assembly_Instruction_Power's constructor: the objects it can produce.
\* Its initialiser list sets the two interaction counts only; Operand_1 and
\* Operand_2 are never written, so they hold indeterminate values.
Assembly_Instruction_Power(p_instruction, p_operand_1, p_operand_2) ==
  LET interactions_1 == calculate_interactions(ToBitset32(p_operand_1))
      interactions_2 == calculate_interactions(ToBitset32(p_operand_2))
  IN  {[present |-> TRUE,
        Operand_1 |-> u1,
        Operand_2 |-> u2,
        Operand_1_Bit_Interactions |-> interactions_1,
        Operand_2_Bit_Interactions |-> interactions_2] :
         u1 \in IndeterminateWords, u2 \in IndeterminateWords}

\* the operands resolved without the guard on stalls and flushes
get_instruction_operands_unguarded(execution, p_cycle) ==
  LET instruction == Get_Instruction(execution, p_cycle)
  IN  [p_operand_1 |-> Get_Operand_Value(execution, p_cycle, instruction, 1),
       p_operand_2 |-> Get_Operand_Value(execution, p_cycle, instruction, 2),
       queries |-> {<<p_cycle, 1>>, <<p_cycle, 2>>}]

\* the operand arguments get_instruction_terms passes to the constructor, and
\* the Get_Operand_Value queries it makes to obtain them
get_instruction_operands(execution, p_cycle) ==
  IF ~Is_Normal_State(execution, p_cycle)
    THEN [p_operand_1 |-> ZeroWord, p_operand_2 |-> ZeroWord, queries |-> {}]
    ELSE LET instruction == Get_Instruction(execution, p_cycle)
         IN  [p_operand_1 |-> Get_Operand_Value(execution, p_cycle, instruction, 1),
              p_operand_2 |-> Get_Operand_Value(execution, p_cycle, instruction, 2),
              queries |-> {<<p_cycle, 1>>, <<p_cycle, 2>>}]

\* the bundles get_instruction_terms can return for a cycle
get_instruction_terms(execution, p_cycle) ==
  LET operands == get_instruction_operands(execution, p_cycle)
  IN  Assembly_Instruction_Power(Get_Instruction(execution, p_cycle),
                                 operands.p_operand_1, operands.p_operand_2)

SourceOf(execution, p_cycle) ==
  [called |-> TRUE, cycle |-> p_cycle,
   queries |-> get_instruction_operands(execution, p_cycle).queries]

\* ------------------------------------------------------------------------
\* Model_Power: the cross-cycle terms
\* ------------------------------------------------------------------------
Instruction_Terms_Interactions(p_instruction_1, p_instruction_2) ==
  LET flip_1 == calculate_bitflips(p_instruction_1.Operand_1,
                                   p_instruction_2.Operand_2)
      flip_2 == calculate_bitflips(p_instruction_1.Operand_1,
                                   p_instruction_2.Operand_2)
  IN  [present |-> TRUE,
       Operand_1_Bit_Flip |-> flip_1,
       Operand_2_Bit_Flip |-> flip_2,
       Bit_Flip1_Bit_Interactions |-> calculate_interactions(flip_1),
       Bit_Flip2_Bit_Interactions |-> calculate_interactions(flip_2)]

InitPower ==
  /\ m_execution \in Executions(MaxPowerCycles)
  /\ PowerIdle
  /\ BitsIdle /\ HWIdle /\ TermIdle /\ CtorIdle

CallGetInstructionTerms ==
  /\ ~instruction_1.present
  /\ \E p_cycle \in 0 .. (Get_Cycle_Count(m_execution) - 1) :
       /\ instruction_1' \in get_instruction_terms(m_execution, p_cycle)
       /\ source_1' = SourceOf(m_execution, p_cycle)
  /\ UNCHANGED <<instruction_2, cross_terms>>
  /\ UNCHANGED <<m_execution, bits_vars, hw_vars, term_vars, ctor_vars>>

\* the caller drops the bundle before the next call
DropInstructionTerms ==
  /\ instruction_1.present
  /\ instruction_1' = NoBundle
  /\ source_1' = NoCall
  /\ UNCHANGED <<instruction_2, cross_terms>>
  /\ UNCHANGED <<m_execution, bits_vars, hw_vars, term_vars, ctor_vars>>

NextPower == CallGetInstructionTerms \/ DropInstructionTerms

SpecPower == InitPower /\ [][NextPower]_vars

\* the bundles the Power model can hold: interaction counts of the operand
\* arguments, and indeterminate Operand_1 and Operand_2
PowerBundles ==
  UNION {Assembly_Instruction_Power(
           [cycle |-> 0, operand_1 |-> o1, operand_2 |-> o2], o1, o2) :
             o1 \in SecondOperandWords, o2 \in SecondOperandWords}

InitCross ==
  /\ instruction_1 \in PowerBundles
  /\ instruction_2 \in PowerBundles
  /\ source_1 = NoCall /\ cross_terms = NoBundle
  /\ m_execution = <<>>
  /\ BitsIdle /\ HWIdle /\ TermIdle /\ CtorIdle

BuildCrossTerms ==
  /\ ~cross_terms.present
  /\ cross_terms' = Instruction_Terms_Interactions(instruction_1, instruction_2)
  /\ UNCHANGED <<instruction_1, instruction_2, source_1>>
  /\ UNCHANGED <<m_execution, bits_vars, hw_vars, term_vars, ctor_vars>>

NextCross == BuildCrossTerms

SpecCross == InitCross /\ [][NextCross]_vars

SymmetricDifference(v, w) == (v \ w) \cup (w \ v)

\* C6: flip vector k is the bit flip of the current bundle's operand k
\* against the previous bundle's operand k, for k = 1 and k = 2, and each
\* bit-flip interaction count is that of its own flip vector.
BitFlipsUseMatchingOperands ==
  cross_terms.present =>
    /\ cross_terms.Operand_1_Bit_Flip =
         SymmetricDifference(instruction_1.Operand_1, instruction_2.Operand_1)
    /\ cross_terms.Operand_2_Bit_Flip =
         SymmetricDifference(instruction_1.Operand_2, instruction_2.Operand_2)
    /\ cross_terms.Bit_Flip1_Bit_Interactions =
         calculate_interactions(cross_terms.Operand_1_Bit_Flip)
    /\ cross_terms.Bit_Flip2_Bit_Interactions =
         calculate_interactions(cross_terms.Operand_2_Bit_Flip)

BundleHoldsResolvedOperands(bundle, source) ==
  (bundle.present /\ source.called /\ Is_Normal_State(m_execution, source.cycle)) =>
    /\ bundle.Operand_1 = m_execution[source.cycle + 1].operand_1
    /\ bundle.Operand_2 = m_execution[source.cycle + 1].operand_2
    /\ bundle.Operand_1_Bit_Interactions = calculate_interactions(bundle.Operand_1)
    /\ bundle.Operand_2_Bit_Interactions = calculate_interactions(bundle.Operand_2)

\* C9: for a normal-state cycle the bundle returned by get_instruction_terms
\* holds in Operand_1 and Operand_2 the two operand values the Execution
\* resolves at that cycle, and its two self-interaction counts are those of
\* the stored values.
BundleOperandsAreResolvedValues ==
  BundleHoldsResolvedOperands(instruction_1, source_1)

StallBundleIsZero(bundle, source) ==
  (bundle.present /\ source.called /\ ~Is_Normal_State(m_execution, source.cycle)) =>
    /\ bundle.Operand_1_Bit_Interactions = 0
    /\ bundle.Operand_2_Bit_Interactions = 0
    /\ source.queries = {}

\* C10: for a stall/flush cycle the bundle returned by get_instruction_terms
\* has both self-interaction counts equal to 0, whatever the operand values
\* at that cycle, and no operand value is resolved from the Execution.
StallBundleHasZeroInteractions ==
  StallBundleIsZero(instruction_1, source_1)

\* C10 witness: a bundle returned for a stall cycle at which both operands
\* are 0xFFFFFFFF.
StallBundleWitness ==
  /\ instruction_1.present /\ source_1.called
  /\ ~Is_Normal_State(m_execution, source_1.cycle)
  /\ m_execution[source_1.cycle + 1].operand_1 = AllOnes
  /\ m_execution[source_1.cycle + 1].operand_2 = AllOnes
  /\ instruction_1.Operand_1_Bit_Interactions = 0
  /\ instruction_1.Operand_2_Bit_Interactions = 0

\* ------------------------------------------------------------------------
\* Model_Power::calculate_term
\* A weight is the rational n / WeightDen, held as its numerator n; the
\* scalar feature value and the int running total are whole numbers.  All
\* these values and their products are exact in a double.
\* ------------------------------------------------------------------------
Opcodes == {"ADD", "MOV"}
TermNames == {"Operand1", "Operand2"}
WeightNumerators == (0 - MaxWeight) .. MaxWeight
ScalarValues == 0 .. MaxScalar

\* Coefficients::Get_Coefficients: one weight per bit position.  The table
\* is spanned by two weights: a term's vector is constant or alternating.
Get_Coefficients(weights, p_opcode, p_term_name) ==
  LET first == IF p_opcode = "ADD" THEN weights[1] ELSE weights[2]
      second == IF p_term_name = "Operand1" THEN first
                ELSE IF p_opcode = "ADD" THEN weights[2] ELSE weights[1]
  IN  [k \in 1 .. Width |-> IF k % 2 = 1 THEN first ELSE second]

\* conversion of a double n / d to int: truncation toward zero
DoubleToInt(n, d) == IF n >= 0 THEN n \div d ELSE 0 - ((0 - n) \div d)

\* the loop of calculate_term from entry k on: total is an int, each
\* "total += p_instruction_term * bit" adds in double and converts back
RECURSIVE TermLoop(_, _, _, _)
TermLoop(coefficients, k, p_instruction_term, total) ==
  IF k > Len(coefficients) THEN total
  ELSE TermLoop(coefficients, k + 1, p_instruction_term,
                DoubleToInt(total * WeightDen
                              + p_instruction_term * coefficients[k],
                            WeightDen))

calculate_term(weights, p_opcode, p_term_name, p_instruction_term) ==
  TermLoop(Get_Coefficients(weights, p_opcode, p_term_name), 1,
           p_instruction_term, 0)

RECURSIVE SumFrom(_, _)
SumFrom(sequence, k) ==
  IF k > Len(sequence) THEN 0 ELSE sequence[k] + SumFrom(sequence, k + 1)

InitTerm ==
  /\ coefficient_weights \in WeightNumerators \X WeightNumerators
  /\ term_call = NoCall
  /\ term_result = 0
  /\ m_execution = <<>>
  /\ BitsIdle /\ HWIdle /\ PowerIdle /\ CtorIdle

CallCalculateTerm ==
  /\ ~term_call.called
  /\ \E p_opcode \in Opcodes, p_term_name \in TermNames,
        p_instruction_term \in ScalarValues :
       /\ term_call' = [called |-> TRUE, p_opcode |-> p_opcode,
                        p_term_name |-> p_term_name,
                        p_instruction_term |-> p_instruction_term]
       /\ term_result' = calculate_term(coefficient_weights, p_opcode,
                                        p_term_name, p_instruction_term)
  /\ UNCHANGED <<coefficient_weights, m_execution>>
  /\ UNCHANGED <<bits_vars, hw_vars, power_vars, ctor_vars>>

NextTerm == CallCalculateTerm

SpecTerm == InitTerm /\ [][NextTerm]_vars

\* C7: calculate_term returns s * (w_0 + ... + w_31) for the scalar s and
\* the coefficient vector w of (opcode, term name), with no rounding or
\* truncation of the products or of the running total.
TermIsExactWeightedSum ==
  term_call.called =>
    term_result * WeightDen =
      term_call.p_instruction_term *
        SumFrom(Get_Coefficients(coefficient_weights, term_call.p_opcode,
                                 term_call.p_term_name), 1)

\* ------------------------------------------------------------------------
\* Model_Power's constructor
\* ------------------------------------------------------------------------
m_required_interaction_terms ==
  {"Operand1", "Operand2", "BitFlip1", "BitFlip2"}

CoefficientTables == [Opcodes -> SUBSET m_required_interaction_terms]

\* Model::Check_Interaction_Terms: every required term is provided
Check_Interaction_Terms(required, provided) ==
  \A opcode \in DOMAIN provided : required \subseteq provided[opcode]

\* a constructor that never throws
Model_Power_no_throw(interaction_terms_ok) == "constructed"

\* the outcome of the constructor: it throws std::logic_error when
\* Check_Interaction_Terms fails, and returns otherwise
Model_Power(interaction_terms_ok) ==
  IF ~interaction_terms_ok THEN "threw" ELSE "constructed"

InitCtor ==
  /\ coefficient_terms \in CoefficientTables
  /\ model_state = "unconstructed"
  /\ generate_calls = 0
  /\ m_execution = <<>>
  /\ BitsIdle /\ HWIdle /\ PowerIdle /\ TermIdle

ConstructModelPower ==
  /\ model_state = "unconstructed"
  /\ model_state' = Model_Power(Check_Interaction_Terms(
                                  m_required_interaction_terms, coefficient_terms))
  /\ UNCHANGED <<coefficient_terms, generate_calls, m_execution>>
  /\ UNCHANGED <<bits_vars, hw_vars, power_vars, term_vars>>

\* Generate_Traces is a member function: it needs a constructed object
CallGenerateTraces ==
  /\ model_state = "constructed"
  /\ generate_calls < MaxCalls
  /\ generate_calls' = generate_calls + 1
  /\ UNCHANGED <<coefficient_terms, model_state, m_execution>>
  /\ UNCHANGED <<bits_vars, hw_vars, power_vars, term_vars>>

NextCtor == ConstructModelPower \/ CallGenerateTraces

SpecCtor == InitCtor /\ [][NextCtor]_vars

TermsProvided ==
  \A opcode \in Opcodes :
    m_required_interaction_terms \subseteq coefficient_terms[opcode]

\* C8: constructing a Power model whose required interaction terms are not
\* all provided ends in an error from the constructor and yields no object
\* on which Generate_Traces is called; construction succeeds exactly when
\* the terms are provided.
ConstructionFailsWithoutTerms ==
  /\ model_state = "threw" => (~TermsProvided /\ generate_calls = 0)
  /\ model_state = "constructed" => TermsProvided
  /\ generate_calls > 0 => (TermsProvided /\ model_state = "constructed")

\* C8 witness: the constructor has thrown for Coefficients that lack one
\* required term of one opcode only.
ConstructionFailsWitness ==
  /\ model_state = "threw"
  /\ coefficient_terms["ADD"] = m_required_interaction_terms
  /\ coefficient_terms["MOV"] = m_required_interaction_terms \ {"BitFlip2"}

\* ------------------------------------------------------------------------
\* All the operations together
\* ------------------------------------------------------------------------
Init == InitBits \/ InitHW \/ InitPower \/ InitCross \/ InitTerm \/ InitCtor

Next == NextBits \/ NextHW \/ NextPower \/ NextCross \/ NextTerm \/ NextCtor

Spec == Init /\ [][Next]_vars

====
